---- MODULE Spec2Model ----
(***************************************************************************)
(* annotation_switch: a switch/case emulation.  A process-wide registry    *)
(* (the __annotations__ singleton) collects case declarations, and a       *)
(* Switch context manager clears it on entry and resolves its subject      *)
(* value against it on exit.                                               *)
(***************************************************************************)
EXTENDS Integers, Sequences, FiniteSets, TLC

(***************************************************************************)
(* Python values.  Every value is a record of one shape, so that any two   *)
(* values can be compared: an atom (a string, a number, None, ...) named   *)
(* by its literal, or a tuple of values.                                   *)
(***************************************************************************)
Atom(a) == [tup |-> FALSE, atom |-> a, elems |-> <<>>]

Tup(s) == [tup |-> TRUE, atom |-> "", elems |-> s]

None == Atom("None")

\* isinstance(v, tuple)
IsTuple(v) == v.tup

(***************************************************************************)
(* Outcome of running a piece of Python code: a value, or an exception     *)
(* (its class name in raises, its argument in val).                        *)
(***************************************************************************)
Ok(v) == [raises |-> "", val |-> v]

Raise(e, arg) == [raises |-> e, val |-> arg]

(***************************************************************************)
(* AST nodes of the elements of an annotation tuple.                       *)
(***************************************************************************)
Constant(a) == [node |-> "Constant", id |-> "", value |-> Atom(a)]

Name(n) == [node |-> "Name", id |-> n, value |-> None]

\* a tuple display of constants, e.g. (1, (2, 3)); value is what it evaluates to
TupleExpr(v) == [node |-> "Tuple", id |-> "", value |-> v]

\* {}["k"]: a subscript whose evaluation raises KeyError
KeyErrorExpr == [node |-> "Subscript", id |-> "", value |-> Atom("k")]

\* 1/0: an operation whose evaluation raises ZeroDivisionError
ZeroDivExpr == [node |-> "BinOp", id |-> "", value |-> None]

\* the module-level name default, bound to the string "default"
default_str == "default"

\* A parsed annotation string: tuple is whether ast.parse yields a Tuple body.
Annotation(elts) == [sentinel |-> FALSE, tuple |-> TRUE, elts |-> elts]

\* an annotation such as "int": an expression that is not a tuple
NotATuple == [sentinel |-> FALSE, tuple |-> FALSE, elts |-> <<>>]

\* _PREDEFINED_CASE = object(): equal to no code
PREDEFINED_CASE == [sentinel |-> TRUE, tuple |-> FALSE, elts |-> <<>>]

\* the value of the code attribute of a _Case whose tuple has no element
NoneCode == [sentinel |-> TRUE, tuple |-> TRUE, elts |-> <<>>]

\* The switch objects the program constructs.
Inst == {"s1", "s2"}

\* The arguments the program constructs its switches with: subject value,
\* keyword, defaults_to_none.  "1" and "2" are used as match keys below, "3"
\* never is.  The two objects are interchangeable, so Init takes every
\* unordered pair of arguments once.
SwitchArgs ==
    << <<Atom("1"), "case", FALSE>>, <<Atom("2"), "when", TRUE>>,
       <<Atom("3"), "case", FALSE>>, <<Atom("3"), "case", TRUE>> >>

\* Keywords, as Switch options and as the names of annotated variables.
Keywords == {"case", "when"}

\* The scope argument of Switch: None, or a dict binding the name x.
NoScope == [n \in {} |-> None]

ScopeArgs == {NoScope}

\* The number of annotations the registry accepts between two clear() calls.
MaxDecls == 2

(***************************************************************************)
(* The annotations of the program's annotated variables: tuples of match   *)
(* keys followed by a body, and malformed ones.                            *)
(***************************************************************************)
Accepted ==
    { Annotation(<<Constant("1"), Constant("a")>>),
      Annotation(<<Constant("1"), Constant("2"),
                   TupleExpr(Tup(<<Atom("1"), Tup(<<Atom("2"), Atom("3")>>)>>))>>),
      Annotation(<<Name("default"), Constant("d")>>),
      Annotation(<<Constant("1"), KeyErrorExpr>>),
      Annotation(<<Constant("default"), Constant("2"), ZeroDivExpr>>),
      Annotation(<<Name("default"), KeyErrorExpr>>),
      Annotation(<<Constant("1"), TupleExpr(Tup(<<>>))>>),
      Annotation(<<Constant("a")>>),
      Annotation(<<Constant("1"), Constant("2"), Name("default")>>) }

Malformed ==
    { NotATuple,
      Annotation(<<Name("x"), Constant("a")>>),
      Annotation(<<Constant("1"), Name("x"), Constant("a")>>),
      Annotation(<<Name("default"), Name("x"), Constant("a")>>) }

Annotations == Accepted \cup Malformed

VARIABLES
    annotations,      \* the attributes of the __annotations__ singleton
    obj_class,        \* __class__ of every switch object
    obj_dict,         \* __dict__ of every switch object
    stack,            \* the objects whose with-block is open, innermost last
    exc,              \* the exception unwinding the open block, "" when none
    declared,         \* history: the annotations accepted since the last clear()
    nested,           \* history: for every open block, the exit of a block inside it
    last              \* history: what the step just taken did, if an __exit__ call

vars == <<annotations, obj_class, obj_dict, stack, exc, declared, nested, last>>

(***************************************************************************)
(* _Case.__init__: parse the annotation and walk the tuple's elements.     *)
(***************************************************************************)
RECURSIVE CaseLoop(_, _, _)
CaseLoop(expr, ind, acc) ==
    IF ind > Len(expr.elts) THEN acc
    ELSE LET elem == expr.elts[ind]
             lastElem == ind = Len(expr.elts)
         IN  IF elem.node # "Constant" /\ ~lastElem
             THEN IF elem.node = "Name" /\ elem.id = "default"
                  THEN CaseLoop(expr, ind + 1, [acc EXCEPT !.is_default_case = TRUE])
                  ELSE [acc EXCEPT !.raises = "CaseIdentifierNotConstantError", !.pos = ind]
             ELSE IF elem.node = "Constant" /\ ~lastElem
             THEN IF elem.value = Atom(default_str)
                  THEN CaseLoop(expr, ind + 1, [acc EXCEPT !.is_default_case = TRUE])
                  ELSE CaseLoop(expr, ind + 1,
                                [acc EXCEPT !.identifiers = @ \cup {elem.value}])
             ELSE CaseLoop(expr, ind + 1, [acc EXCEPT !.code = expr])

\* parse_annotation raises unless the annotation parses to a tuple expression
parse_annotation(val) ==
    IF val.tuple THEN Ok(val) ELSE Raise("Exception", None)

\* _Case.__init__ reporting the offending element's 0-based index
Case_zero_based(value_str) ==
    LET init == [raises |-> "", pos |-> 0, identifiers |-> {},
                 is_default_case |-> FALSE, code |-> NoneCode]
        case == IF parse_annotation(value_str).raises # ""
                THEN [init EXCEPT !.raises = parse_annotation(value_str).raises]
                ELSE CaseLoop(value_str, 1, init)
    IN  [case EXCEPT !.pos = IF @ > 0 THEN @ - 1 ELSE 0]

Case(value_str) ==
    LET init == [raises |-> "", pos |-> 0, identifiers |-> {},
                 is_default_case |-> FALSE, code |-> NoneCode]
    IN  IF parse_annotation(value_str).raises # ""
        THEN [init EXCEPT !.raises = parse_annotation(value_str).raises]
        ELSE CaseLoop(value_str, 1, init)

(***************************************************************************)
(* eval(compile(c, mode="eval"), s): the elements of the tuple expression  *)
(* are evaluated left to right against the scope s.                        *)
(***************************************************************************)
EvalNode(e, s) ==
    CASE e.node = "Constant" -> Ok(e.value)
      [] e.node = "Name" -> IF e.id \in DOMAIN s THEN Ok(s[e.id])
                            ELSE Raise("NameError", Atom(e.id))
      [] e.node = "Tuple" -> Ok(e.value)
      [] e.node = "Subscript" -> Raise("KeyError", e.value)
      [] OTHER -> Raise("ZeroDivisionError", None)

RECURSIVE EvalElts(_, _, _, _)
EvalElts(elts, s, i, acc) ==
    IF i > Len(elts) THEN Ok(Tup(acc))
    ELSE IF EvalNode(elts[i], s).raises # "" THEN EvalNode(elts[i], s)
    ELSE EvalElts(elts, s, i + 1, Append(acc, EvalNode(elts[i], s).val))

compile_and_eval(c, s) == EvalElts(c.elts, s, 1, <<>>)

\* t[-1]
LastItem(t) ==
    IF Len(t.elems) = 0 THEN Raise("IndexError", None)
    ELSE Ok(t.elems[Len(t.elems)])

(***************************************************************************)
(* The __annotations__ singleton.  self is the record of its attributes.   *)
(***************************************************************************)
NoCases == [k \in {} |-> PREDEFINED_CASE]

clear(self) ==
    [cases |-> NoCases, default |-> PREDEFINED_CASE,
     keyword |-> "case", default_to_none |-> FALSE]

\* apply_options setting the keyword only
apply_options_keyword_only(self, dtn, kw) ==
    [self EXCEPT !.keyword = kw]

apply_options(self, dtn, kw) ==
    [self EXCEPT !.default_to_none = dtn, !.keyword = kw]

\* merge taking a case without identifiers for the default case
merge_keyless_is_default(self, case) ==
    [self EXCEPT
        !.cases = [k \in DOMAIN self.cases \cup case.identifiers |->
                      IF k \in case.identifiers THEN case.code ELSE self.cases[k]],
        !.default = IF case.is_default_case \/ case.identifiers = {}
                    THEN case.code ELSE @]

\* merge with an existing key kept instead of overwritten
merge_first_wins(self, case) ==
    [self EXCEPT
        !.cases = [k \in DOMAIN self.cases \cup case.identifiers |->
                      IF k \in DOMAIN self.cases THEN self.cases[k] ELSE case.code],
        !.default = IF case.is_default_case /\ @ = PREDEFINED_CASE
                    THEN case.code ELSE @]

\* self.cases[identifier] = case.code for every identifier, then the default
merge(self, case) ==
    [self EXCEPT
        !.cases = [k \in DOMAIN self.cases \cup case.identifiers |->
                      IF k \in case.identifiers THEN case.code ELSE self.cases[k]],
        !.default = IF case.is_default_case THEN case.code ELSE @]

\* __setitem__ without the test of the key
setitem_any_key(self, key, value) ==
    IF Case(value).raises # ""
    THEN [self |-> self, raises |-> Case(value).raises, merged |-> FALSE]
    ELSE [self |-> merge(self, Case(value)), raises |-> "", merged |-> TRUE]

\* __setitem__ storing what was parsed before the element that is rejected
setitem_partial(self, key, value) ==
    IF key # self.keyword
    THEN [self |-> self, raises |-> "", merged |-> FALSE]
    ELSE IF Case(value).raises # ""
    THEN [self |-> merge(self, Case(value)), raises |-> Case(value).raises,
          merged |-> FALSE]
    ELSE [self |-> merge(self, Case(value)), raises |-> "", merged |-> TRUE]

\* __setitem__: the registry afterwards, the exception raised and whether a
\* case was parsed and merged
setitem(self, key, value) ==
    IF key # self.keyword
    THEN [self |-> self, raises |-> "", merged |-> FALSE]
    ELSE IF Case(value).raises # ""
    THEN [self |-> self, raises |-> Case(value).raises, merged |-> FALSE]
    ELSE [self |-> merge(self, Case(value)), raises |-> "", merged |-> TRUE]

(***************************************************************************)
(* __annotations__.resolve.  The try block covers both the lookup          *)
(* self.cases[value] and the evaluation of the code found, so the handler  *)
(* of KeyError runs for a KeyError of either.                              *)
(***************************************************************************)
\* the try block: the lookup, then the evaluation of the code found
try_case(self, value, scope) ==
    IF value \in DOMAIN self.cases
    THEN compile_and_eval(self.cases[value], scope)
    ELSE Raise("KeyError", value)

\* the handler with the default_to_none test left out: a miss always yields None
except_KeyError_lenient(self, value, scope) ==
    IF self.default = PREDEFINED_CASE
    THEN Ok(Tup(<<None>>))
    ELSE compile_and_eval(self.default, scope)

\* the handler with the default_to_none test left out: a miss always raises
except_KeyError_strict(self, value, scope) ==
    IF self.default = PREDEFINED_CASE
    THEN Raise("SwitchCaseNotValidError", value)
    ELSE compile_and_eval(self.default, scope)

\* the handler of KeyError
except_KeyError(self, value, scope) ==
    IF self.default = PREDEFINED_CASE
    THEN IF self.default_to_none THEN Ok(Tup(<<None>>))
         ELSE Raise("SwitchCaseNotValidError", value)
    ELSE compile_and_eval(self.default, scope)

\* extract unwrapping a tuple once more than the code does
extract_two_levels(code_result) ==
    LET item == LastItem(code_result)
        inner == IF item.raises = "" /\ IsTuple(item.val) THEN LastItem(item.val) ELSE item
    IN  IF inner.raises = "" /\ IsTuple(inner.val) THEN LastItem(inner.val) ELSE inner

\* extract taking the item after the first one, as if every case had one key
extract_second_item(code_result) ==
    LET item == IF Len(code_result.elems) < 2 THEN Raise("IndexError", None)
                ELSE Ok(code_result.elems[2])
    IN  IF item.raises # "" THEN item
        ELSE IF IsTuple(item.val) THEN LastItem(item.val)
        ELSE item

\* code_result[-1], and its last item when that is a tuple
extract(code_result) ==
    LET item == LastItem(code_result)
    IN  IF item.raises # "" THEN item
        ELSE IF IsTuple(item.val) THEN LastItem(item.val)
        ELSE item

\* evaluated lists the codes that were evaluated, in order
resolve(self, value, scope) ==
    LET hit == value \in DOMAIN self.cases
        tried == try_case(self, value, scope)
        caught == tried.raises = "KeyError"
        code_result == IF caught THEN except_KeyError(self, value, scope) ELSE tried
        evaluated == (IF hit THEN <<self.cases[value]>> ELSE <<>>)
                     \o (IF caught /\ self.default # PREDEFINED_CASE
                         THEN <<self.default>> ELSE <<>>)
        result == IF code_result.raises # "" THEN code_result
                  ELSE extract(code_result.val)
    IN  [raises |-> result.raises, val |-> result.val, evaluated |-> evaluated]

\* OutputWrapper is a frozen dataclass: assigning a field raises
frozen_setattr(d, v) == [dict |-> d, raises |-> "FrozenInstanceError"]

(***************************************************************************)
(* Switch.__init__: the attributes of a new Switch.                        *)
(***************************************************************************)
SwitchInit(with_value, scope, kw, defaults_to_none) ==
    [with_value |-> with_value,
     output |-> None,
     scope |-> [n \in DOMAIN scope \cup {"default"} |->
                   IF n = "default" THEN Atom(default_str) ELSE scope[n]],
     keyword |-> kw,
     defaults_to_none |-> defaults_to_none]

\* no block was entered and left inside this block; otherwise exit tells whether
\* the latest one left with its resolve having raised ("raised") or not ("ok"),
\* and since is the length declared had then
NotNested == [exit |-> "", since |-> 0]

\* the step just taken was no __exit__ call
NoExit ==
    [inst |-> "", value |-> None, scope |-> NoScope,
     before |-> clear(<<>>), declared |-> <<>>,
     depth |-> 0, nested |-> NotNested,
     result |-> [raises |-> "", val |-> None, evaluated |-> <<>>],
     block_exc |-> "", propagated |-> ""]

Init ==
    /\ annotations = clear(<<>>)
    /\ obj_class = [i \in Inst |-> "Switch"]
    /\ \E a, b \in 1..Len(SwitchArgs), s \in ScopeArgs :
          /\ a <= b
          /\ obj_dict = [i \in Inst |->
                LET args == SwitchArgs[IF i = "s1" THEN a ELSE b]
                IN  SwitchInit(args[1], s, args[2], args[3])]
    /\ stack = <<>>
    /\ exc = ""
    /\ declared = <<>>
    /\ nested = <<>>
    /\ last = NoExit

\* the history of the open blocks when the innermost one is left
LeaveBlock(n, raises, decl) ==
    IF Len(n) = 1 THEN <<>>
    ELSE Append(SubSeq(n, 1, Len(n) - 2),
                [exit |-> IF raises # "" THEN "raised" ELSE "ok", since |-> Len(decl)])

InStack(i) == \E n \in 1..Len(stack) : stack[n] = i

(***************************************************************************)
(* with obj: ... calls type(obj).__enter__, which only a Switch has.       *)
(***************************************************************************)
\* __enter__ without its call of clear
Enter_without_clear(i) ==
    /\ exc = ""
    /\ obj_class[i] = "Switch"
    /\ ~InStack(i)
    /\ annotations' = apply_options(annotations,
                                    obj_dict[i].defaults_to_none, obj_dict[i].keyword)
    /\ stack' = Append(stack, i)
    /\ nested' = Append(nested, NotNested)
    /\ declared' = <<>>
    /\ last' = NoExit
    /\ UNCHANGED <<obj_class, obj_dict, exc>>

Enter(i) ==
    /\ exc = ""
    /\ obj_class[i] = "Switch"
    /\ ~InStack(i)
    /\ annotations' = apply_options(clear(annotations),
                                    obj_dict[i].defaults_to_none, obj_dict[i].keyword)
    /\ stack' = Append(stack, i)
    /\ nested' = Append(nested, NotNested)
    /\ declared' = <<>>
    /\ last' = NoExit
    /\ UNCHANGED <<obj_class, obj_dict, exc>>

(***************************************************************************)
(* An annotated variable  key: value  reaches __annotations__.__setitem__. *)
(* An exception raised inside an open block starts unwinding it.           *)
(***************************************************************************)
SetItem(key, value) ==
    /\ exc = ""
    /\ Len(declared) < MaxDecls
    /\ LET r == setitem(annotations, key, value)
       IN  /\ annotations' = r.self
           /\ declared' = IF r.merged THEN Append(declared, value) ELSE declared
           /\ exc' = IF stack # <<>> THEN r.raises ELSE ""
    /\ last' = NoExit
    /\ UNCHANGED <<obj_class, obj_dict, stack, nested>>

\* __exit__ without the class swap of its last line
Exit_no_class_swap(i) ==
    /\ stack # <<>>
    /\ i = stack[Len(stack)]
    /\ LET d == obj_dict[i]
           r == resolve(annotations, d.with_value, d.scope)
           propagated == IF r.raises # "" THEN r.raises ELSE exc
       IN  /\ IF r.raises # ""
              THEN UNCHANGED <<annotations, obj_dict, declared>>
              ELSE /\ annotations' = clear(annotations)
                   /\ obj_dict' = [obj_dict EXCEPT ![i].output = r.val]
                   /\ declared' = <<>>
           /\ \E caught \in BOOLEAN :
                 exc' = IF caught \/ Len(stack) = 1 THEN "" ELSE propagated
           /\ last' = [inst |-> i, value |-> d.with_value, scope |-> d.scope,
                       before |-> annotations, declared |-> declared,
                       depth |-> Len(stack), nested |-> nested[Len(nested)],
                       result |-> r, block_exc |-> exc, propagated |-> propagated]
           /\ nested' = LeaveBlock(nested, r.raises, declared')
    /\ stack' = SubSeq(stack, 1, Len(stack) - 1)
    /\ UNCHANGED obj_class

\* __exit__ freezing the instance also when resolve raised
Exit_always_freezes(i) ==
    /\ stack # <<>>
    /\ i = stack[Len(stack)]
    /\ LET d == obj_dict[i]
           r == resolve(annotations, d.with_value, d.scope)
           propagated == IF r.raises # "" THEN r.raises ELSE exc
       IN  /\ IF r.raises # ""
              THEN UNCHANGED <<annotations, declared>>
              ELSE /\ annotations' = clear(annotations)
                   /\ declared' = <<>>
           /\ obj_dict' = [obj_dict EXCEPT ![i] = [output |-> r.val]]
           /\ obj_class' = [obj_class EXCEPT ![i] = "OutputWrapper"]
           /\ \E caught \in BOOLEAN :
                 exc' = IF caught \/ Len(stack) = 1 THEN "" ELSE propagated
           /\ last' = [inst |-> i, value |-> d.with_value, scope |-> d.scope,
                       before |-> annotations, declared |-> declared,
                       depth |-> Len(stack), nested |-> nested[Len(nested)],
                       result |-> r, block_exc |-> exc, propagated |-> propagated]
           /\ nested' = LeaveBlock(nested, r.raises, declared')
    /\ stack' = SubSeq(stack, 1, Len(stack) - 1)

\* __exit__ doing nothing when the block raised
Exit_skips_resolve_after_error(i) ==
    /\ stack # <<>>
    /\ i = stack[Len(stack)]
    /\ LET d == obj_dict[i]
           r == IF exc # "" THEN [raises |-> exc, val |-> None, evaluated |-> <<>>]
                ELSE resolve(annotations, d.with_value, d.scope)
           propagated == IF r.raises # "" THEN r.raises ELSE exc
       IN  /\ IF r.raises # ""
              THEN UNCHANGED <<annotations, obj_dict, obj_class, declared>>
              ELSE /\ annotations' = clear(annotations)
                   /\ obj_dict' = [obj_dict EXCEPT ![i] = [output |-> r.val]]
                   /\ obj_class' = [obj_class EXCEPT ![i] = "OutputWrapper"]
                   /\ declared' = <<>>
           /\ \E caught \in BOOLEAN :
                 exc' = IF caught \/ Len(stack) = 1 THEN "" ELSE propagated
           /\ last' = [inst |-> i, value |-> d.with_value, scope |-> d.scope,
                       before |-> annotations, declared |-> declared,
                       depth |-> Len(stack), nested |-> nested[Len(nested)],
                       result |-> r, block_exc |-> exc, propagated |-> propagated]
           /\ nested' = LeaveBlock(nested, r.raises, declared')
    /\ stack' = SubSeq(stack, 1, Len(stack) - 1)

(***************************************************************************)
(* Switch.__exit__ of the innermost open block.  When resolve raises, the  *)
(* lines after it do not run.  __exit__ returns None, so an exception of   *)
(* the block is not suppressed.  caught: the program catches the exception *)
(* that leaves the with statement before it unwinds an enclosing block.    *)
(***************************************************************************)
Exit(i) ==
    /\ stack # <<>>
    /\ i = stack[Len(stack)]
    /\ LET d == obj_dict[i]
           r == resolve(annotations, d.with_value, d.scope)
           propagated == IF r.raises # "" THEN r.raises ELSE exc
       IN  /\ IF r.raises # ""
              THEN UNCHANGED <<annotations, obj_dict, obj_class, declared>>
              ELSE /\ annotations' = clear(annotations)
                   /\ obj_dict' = [obj_dict EXCEPT ![i] = [output |-> r.val]]
                   /\ obj_class' = [obj_class EXCEPT ![i] = "OutputWrapper"]
                   /\ declared' = <<>>
           /\ \E caught \in BOOLEAN :
                 exc' = IF caught \/ Len(stack) = 1 THEN "" ELSE propagated
           /\ last' = [inst |-> i, value |-> d.with_value, scope |-> d.scope,
                       before |-> annotations, declared |-> declared,
                       depth |-> Len(stack), nested |-> nested[Len(nested)],
                       result |-> r, block_exc |-> exc, propagated |-> propagated]
           /\ nested' = LeaveBlock(nested, r.raises, declared')
    /\ stack' = SubSeq(stack, 1, Len(stack) - 1)

(***************************************************************************)
(* The program assigns the output field of a result holder.                *)
(***************************************************************************)
SetOutput(i, v) ==
    /\ exc = ""
    /\ obj_class[i] = "OutputWrapper"
    /\ LET r == frozen_setattr(obj_dict[i], v)
       IN  /\ obj_dict' = [obj_dict EXCEPT ![i] = r.dict]
           /\ exc' = IF stack # <<>> THEN r.raises ELSE ""
    /\ last' = NoExit
    /\ UNCHANGED <<annotations, obj_class, stack, declared, nested>>

Next ==
    \/ \E i \in Inst : Enter(i)
    \/ \E key \in Keywords, value \in Annotations : SetItem(key, value)
    \/ \E i \in Inst : Exit(i)
    \/ \E i \in Inst : SetOutput(i, Atom("z"))

Spec == Init /\ [][Next]_vars

(***************************************************************************)
(* What a declaration means, read off the annotation itself: its match     *)
(* keys, whether it is marked default, and the result of its body (the     *)
(* statement: when it is a tuple its last item, otherwise its value).      *)
(***************************************************************************)
KeysOf(ann) ==
    { ann.elts[n].value :
        n \in { m \in 1..(Len(ann.elts) - 1) :
                  /\ ann.elts[m].node = "Constant"
                  /\ ann.elts[m].value # Atom("default") } }

MarksDefault(ann) ==
    \E n \in 1..(Len(ann.elts) - 1) :
        \/ ann.elts[n].node = "Name" /\ ann.elts[n].id = "default"
        \/ ann.elts[n].node = "Constant" /\ ann.elts[n].value = Atom("default")

BodyValue(ann, scope) == EvalNode(ann.elts[Len(ann.elts)], scope)

StatementResult(ann, scope) ==
    IF BodyValue(ann, scope).raises = "" /\ IsTuple(BodyValue(ann, scope).val)
    THEN LastItem(BodyValue(ann, scope).val)
    ELSE BodyValue(ann, scope)

PairwiseDisjoint(seq) ==
    \A m, n \in 1..Len(seq) : m # n => KeysOf(seq[m]) \cap KeysOf(seq[n]) = {}

\* the positions of seq whose declaration has key k / is marked default
WithKey(seq, k) == { n \in 1..Len(seq) : k \in KeysOf(seq[n]) }

WithDefault(seq) == { n \in 1..Len(seq) : MarksDefault(seq[n]) }

Latest(S) == CHOOSE n \in S : \A m \in S : m <= n

\* the step just taken was an __exit__ call
Exited == last.inst # ""

\* what its resolve call returned or raised
Resolved == [raises |-> last.result.raises, val |-> last.result.val]

Hit == last.value \in DOMAIN last.before.cases

HasDefault == last.before.default # PREDEFINED_CASE

\* the code a resolution selects: the matched case's, else the default's
Selected ==
    IF Hit THEN <<last.before.cases[last.value]>>
    ELSE IF HasDefault THEN <<last.before.default>>
    ELSE <<>>

(***************************************************************************)
(* C1: when the declarations registered have pairwise disjoint key sets,   *)
(* resolving a value that is a key of one of them returns the result of    *)
(* that declaration's body, never another case's or the default's.         *)
(***************************************************************************)
C1_HitReturnsOwnBody ==
    \A n \in 1..Len(last.declared) :
        (/\ Exited
         /\ PairwiseDisjoint(last.declared)
         /\ last.value \in KeysOf(last.declared[n]))
        => Resolved = StatementResult(last.declared[n], last.scope)

(***************************************************************************)
(* C2: with a default registered, a value that is no registered key        *)
(* resolves to the default body's result and a value that is a registered  *)
(* key resolves to its own case's result, not the default's.               *)
(***************************************************************************)
C2_DefaultOnlyOnMiss ==
    (Exited /\ HasDefault)
    => IF Hit
       THEN Resolved = StatementResult(last.before.cases[last.value], last.scope)
       ELSE Resolved = StatementResult(last.before.default, last.scope)

(***************************************************************************)
(* C3: the registry holds, for every key (and for the default marker), the *)
(* code of the latest declaration that names it, and nothing else of the   *)
(* registration order; resolving a registered key evaluates the code of    *)
(* the latest declaration with that key.                                   *)
(***************************************************************************)
C3_LastWriteWins ==
    /\ DOMAIN annotations.cases = UNION { KeysOf(declared[n]) : n \in 1..Len(declared) }
    /\ \A k \in DOMAIN annotations.cases :
          annotations.cases[k] = declared[Latest(WithKey(declared, k))]
    /\ annotations.default =
          IF WithDefault(declared) = {} THEN PREDEFINED_CASE
          ELSE declared[Latest(WithDefault(declared))]
    /\ (Exited /\ WithKey(last.declared, last.value) # {})
       => /\ last.result.evaluated # <<>>
          /\ last.result.evaluated[1] =
                last.declared[Latest(WithKey(last.declared, last.value))]

C3_Witness ==
    /\ Exited
    /\ Len(last.declared) = 2
    /\ last.declared[1] # last.declared[2]
    /\ last.value \in KeysOf(last.declared[1]) \cap KeysOf(last.declared[2])
    /\ last.result.evaluated = <<last.declared[2]>>

\* a miss in strict mode: no declaration has the value as key, none is a default
StrictMiss ==
    /\ Exited
    /\ ~last.before.default_to_none
    /\ WithKey(last.declared, last.value) = {}
    /\ WithDefault(last.declared) = {}

(***************************************************************************)
(* C4: in strict mode, resolving a value that no declaration has as a key, *)
(* with no default declared, raises SwitchCaseNotValidError carrying the   *)
(* value, out of __exit__, and evaluates no body.                          *)
(***************************************************************************)
C4_StrictMissRaises ==
    StrictMiss
    => /\ Resolved = Raise("SwitchCaseNotValidError", last.value)
       /\ last.result.evaluated = <<>>
       /\ last.propagated = "SwitchCaseNotValidError"

C4_Witness == StrictMiss /\ Len(last.declared) > 0

\* a miss in lenient mode: no declaration has the value as key, none is a default
LenientMiss ==
    /\ Exited
    /\ last.before.default_to_none
    /\ WithKey(last.declared, last.value) = {}
    /\ WithDefault(last.declared) = {}

(***************************************************************************)
(* C5: in lenient mode, resolving a value that no declaration has as a     *)
(* key, with no default declared (also with no declaration at all), yields *)
(* None and raises nothing: the switch exits with output None.             *)
(***************************************************************************)
C5_LenientMissYieldsNone ==
    LenientMiss
    => /\ Resolved = Ok(None)
       /\ last.result.evaluated = <<>>
       /\ last.propagated = last.block_exc
       /\ obj_dict[last.inst].output = None

C5_Witness == LenientMiss /\ last.declared = <<>> /\ last.block_exc = ""

C8_BodyErrorPropagates ==
    (Exited /\ Selected # <<>> /\ BodyValue(Selected[1], last.scope).raises # "")
    => Resolved = BodyValue(Selected[1], last.scope)

(***************************************************************************)
(* C9: one resolution evaluates at most one body, the winning one: the     *)
(* matched case's on a hit, the default's on a miss with a default, none   *)
(* on a miss without a default.                                            *)
(***************************************************************************)
C9_OnlyWinningBodyEvaluated ==
    Exited => last.result.evaluated = Selected

\* the body evaluated last yielded a non-empty tuple; its last element
TupleBody ==
    /\ Exited
    /\ last.result.evaluated # <<>>
    /\ LET b == BodyValue(last.result.evaluated[Len(last.result.evaluated)], last.scope)
       IN  b.raises = "" /\ IsTuple(b.val) /\ Len(b.val.elems) > 0

TupleBodyLast ==
    LET b == BodyValue(last.result.evaluated[Len(last.result.evaluated)], last.scope)
    IN  b.val.elems[Len(b.val.elems)]

(***************************************************************************)
(* C10, as claimed: when the selected body yields a tuple, the result is   *)
(* the tuple's last element, unwrapped once more when that element is a    *)
(* tuple: (1, (2, 3)) gives 3.                                             *)
(***************************************************************************)
C10_TwoLevelUnwrap ==
    TupleBody
    => Resolved = IF IsTuple(TupleBodyLast) THEN LastItem(TupleBodyLast)
                  ELSE Ok(TupleBodyLast)

(***************************************************************************)
(* C10, as amended: when the selected body yields a non-empty tuple, the   *)
(* result is the tuple's last element as it is: (1, (2, 3)) gives (2, 3).  *)
(***************************************************************************)
C10_OneLevelUnwrap == TupleBody => Resolved = Ok(TupleBodyLast)

C10_Witness ==
    /\ TupleBody
    /\ IsTuple(TupleBodyLast)
    /\ Resolved = Ok(Tup(<<Atom("2"), Atom("3")>>))

\* the selected body yielded a value that is no tuple
NonTupleBody ==
    /\ Exited
    /\ Selected # <<>>
    /\ BodyValue(Selected[1], last.scope).raises = ""
    /\ ~IsTuple(BodyValue(Selected[1], last.scope).val)

(***************************************************************************)
(* C11: when the selected body (a matched case's or the default's) yields  *)
(* a value that is no tuple, the resolution returns exactly that value,    *)
(* however many match keys precede the body.                               *)
(***************************************************************************)
C11_PlainValueUnmodified ==
    NonTupleBody => Resolved = BodyValue(Selected[1], last.scope)

C11_Witness ==
    /\ NonTupleBody
    /\ Len(Selected[1].elts) = 3
    /\ Resolved = Ok(Atom("default"))

(***************************************************************************)
(* C12: __setitem__ with a key other than the configured keyword changes   *)
(* nothing and raises nothing, whatever the annotation, a malformed one    *)
(* included.                                                               *)
(***************************************************************************)
C12_OtherKeyIsNoOp ==
    \A key \in Keywords, value \in Annotations :
        key # annotations.keyword
        => setitem(annotations, key, value)
              = [self |-> annotations, raises |-> "", merged |-> FALSE]

\* inside a block under the keyword "when", with cases registered: an
\* annotation of a variable named case is ignored here
C12_Witness ==
    /\ stack # <<>>
    /\ exc = ""
    /\ annotations.keyword = "when"
    /\ annotations.cases # NoCases
    /\ Len(declared) < MaxDecls

\* the positions before the last whose element is neither a constant nor default
Offending(ann) ==
    { n \in 1..(Len(ann.elts) - 1) :
        /\ ann.elts[n].node # "Constant"
        /\ ~(ann.elts[n].node = "Name" /\ ann.elts[n].id = "default") }

Earliest(S) == CHOOSE n \in S : \A m \in S : n <= m

(***************************************************************************)
(* C13: registering a tuple annotation with an element before the last     *)
(* that is neither a constant nor default raises                           *)
(* CaseIdentifierNotConstantError naming the 1-based position of the first *)
(* such element; without one the annotation is accepted, whatever the      *)
(* shape of its last element.                                              *)
(***************************************************************************)
C13_NonConstantIdentifierRejected ==
    \A value \in Annotations :
        value.tuple
        => LET r == setitem(annotations, annotations.keyword, value)
           IN  IF Offending(value) # {}
               THEN /\ r.raises = "CaseIdentifierNotConstantError"
                    /\ ~r.merged
                    /\ Case(value).pos = Earliest(Offending(value))
               ELSE r.raises = "" /\ r.merged

C13_Witness == stack # <<>> /\ exc = "CaseIdentifierNotConstantError"

\* the cases and the default that registering seq in order on an empty
\* registry gives: per key and for the default, the latest declaration
CasesOf(seq) ==
    [k \in UNION { KeysOf(seq[n]) : n \in 1..Len(seq) } |->
        seq[Latest(WithKey(seq, k))]]

DefaultOf(seq) ==
    IF WithDefault(seq) = {} THEN PREDEFINED_CASE ELSE seq[Latest(WithDefault(seq))]

\* the exit of a block that is in no other block and had no block inside it
SequentialExit == Exited /\ last.depth = 1 /\ last.nested = NotNested

(***************************************************************************)
(* C14: in sequential use, the cases and the default that resolve sees at  *)
(* the exit of a block are exactly those of the declarations accepted      *)
(* since the entry of that block: nothing an earlier block left behind     *)
(* (its exit may have raised) and nothing declared between blocks.         *)
(***************************************************************************)
C14_NothingRetainedAcrossBlocks ==
    SequentialExit
    => /\ last.before.cases = CasesOf(last.declared)
       /\ last.before.default = DefaultOf(last.declared)

C14_Witness ==
    /\ SequentialExit
    /\ Len(last.declared) = 1
    /\ DOMAIN last.before.cases = KeysOf(last.declared[1])
    /\ KeysOf(last.declared[1]) # {}
    /\ \E i \in Inst : i # last.inst /\ obj_class[i] = "OutputWrapper"

\* the registry at its defaults
Defaults ==
    [cases |-> NoCases, default |-> PREDEFINED_CASE,
     keyword |-> "case", default_to_none |-> FALSE]

(***************************************************************************)
(* C15: the step that enters a block leaves the registry empty with the    *)
(* options of the entered switch; resolve runs in the exit step only, on   *)
(* the registry as the block left it; the exit step whose resolve succeeds *)
(* leaves the registry at its defaults (cases, default, keyword, strict    *)
(* mode) and the instance frozen with the resolved value; no other step    *)
(* freezes an instance.                                                    *)
(***************************************************************************)
C15_ClearPopulateResolveClearFreeze ==
    [][\A i \in Inst :
          /\ (Len(stack') = Len(stack) + 1 /\ stack'[Len(stack')] = i)
             => annotations' = [Defaults EXCEPT
                                   !.keyword = obj_dict[i].keyword,
                                   !.default_to_none = obj_dict[i].defaults_to_none]
          /\ (last'.inst = i /\ last'.result.raises = "")
             => /\ stack # <<>> /\ stack[Len(stack)] = i
                /\ stack' = SubSeq(stack, 1, Len(stack) - 1)
                /\ last'.before = annotations
                /\ last'.result = resolve(annotations, obj_dict[i].with_value,
                                          obj_dict[i].scope)
                /\ annotations' = Defaults
                /\ obj_class'[i] = "OutputWrapper"
                /\ obj_dict'[i].output = last'.result.val
          /\ (obj_class[i] = "Switch" /\ obj_class'[i] = "OutputWrapper")
             => last'.inst = i /\ last'.result.raises = ""]_vars

C15_Witness ==
    /\ Exited
    /\ last.result.raises = ""
    /\ last.before.keyword = "when"
    /\ last.before.default_to_none
    /\ Len(last.declared) = 2
    /\ annotations = Defaults
    /\ obj_class[last.inst] = "OutputWrapper"

\* the declarations accepted after the exit of the latest inner block
AfterInner == SubSeq(last.declared, last.nested.since + 1, Len(last.declared))

(***************************************************************************)
(* C16: at the exit of a block inside which another block was entered and  *)
(* exited, resolve sees the keyword case, strict mode, and exactly the     *)
(* cases and the default declared after the inner exit.                    *)
(***************************************************************************)
C16_OuterSeesOnlyLaterCases ==
    (Exited /\ last.nested.exit # "")
    => /\ last.before.keyword = "case"
       /\ ~last.before.default_to_none
       /\ last.before.cases = CasesOf(AfterInner)
       /\ last.before.default = DefaultOf(AfterInner)

\* the same when the exit of the inner block did not raise
C16_AfterInnerSuccess ==
    (Exited /\ last.nested.exit = "ok")
    => /\ last.before.keyword = "case"
       /\ ~last.before.default_to_none
       /\ last.before.cases = CasesOf(AfterInner)
       /\ last.before.default = DefaultOf(AfterInner)

\* a declaration with a body and nothing before it that is a key or a default
BodyOnly(ann) ==
    /\ ann.tuple
    /\ Len(ann.elts) >= 1
    /\ Offending(ann) = {}
    /\ KeysOf(ann) = {}
    /\ ~MarksDefault(ann)

(***************************************************************************)
(* C17: the step that registers a declaration made of a body alone raises  *)
(* nothing and changes neither the cases nor the default.                  *)
(***************************************************************************)
C17_BodyOnlyIsLegal ==
    [][(/\ Len(declared') = Len(declared) + 1
        /\ BodyOnly(declared'[Len(declared')]))
       => /\ exc' = ""
          /\ annotations' = annotations]_vars

\* a block with body-only declarations alone resolved as a miss
C17_Witness ==
    /\ Exited
    /\ Len(last.declared) = 2
    /\ \A n \in 1..Len(last.declared) : BodyOnly(last.declared[n])
    /\ last.before.cases = NoCases
    /\ last.before.default = PREDEFINED_CASE
    /\ last.result.evaluated = <<>>

\* the declaration is rejected: no tuple, or an identifier that is no constant
Rejected(ann) == ~ann.tuple \/ Offending(ann) # {}

(***************************************************************************)
(* C18: a registration that raises leaves the registry (cases, default,    *)
(* keyword, mode) as it was, also when keys or a default marker come       *)
(* before the element that is rejected.                                    *)
(***************************************************************************)
C18_FailedRegistrationIsAtomic ==
    \A value \in Annotations :
        Rejected(value)
        => LET r == setitem(annotations, annotations.keyword, value)
           IN  /\ r.raises # ""
               /\ r.self = annotations
               /\ ~r.merged

\* a registration was rejected in a block that had registered cases and a default
C18_Witness ==
    /\ stack # <<>>
    /\ exc \in {"Exception", "CaseIdentifierNotConstantError"}
    /\ annotations.cases # NoCases
    /\ annotations.default # PREDEFINED_CASE
    /\ annotations.cases = CasesOf(declared)

\* the step just taken was an __exit__ call whose resolve raised
FailedExit == Exited /\ last.result.raises # ""

(***************************************************************************)
(* C19: the exit step whose resolve raises leaves the instance a Switch    *)
(* with the attributes it had, output None among them, and out of every    *)
(* open block; once the exception is handled the instance can be entered   *)
(* again, and the entry step leaves no case and no default registered.     *)
(***************************************************************************)
C19_FailedExitKeepsSwitch ==
    /\ [][\A i \in Inst :
             /\ (last'.inst = i /\ last'.result.raises # "")
                => /\ obj_class'[i] = "Switch"
                   /\ obj_dict'[i] = obj_dict[i]
                   /\ obj_dict'[i].output = None
                   /\ \A n \in 1..Len(stack') : stack'[n] # i
             /\ (FailedExit /\ last.inst = i /\ stack'= Append(stack, i))
                => /\ annotations'.cases = NoCases
                   /\ annotations'.default = PREDEFINED_CASE]_vars
    /\ []((FailedExit /\ exc = "") => ENABLED Enter(last.inst))

\* after a failing exit with the exception handled: a Switch, cases left behind
C19_Witness ==
    /\ FailedExit
    /\ exc = ""
    /\ stack = <<>>
    /\ obj_class[last.inst] = "Switch"
    /\ obj_dict[last.inst].output = None
    /\ annotations.cases # NoCases

\* the exit of a block that an exception is leaving
ExitAfterError == Exited /\ last.block_exc # ""

(***************************************************************************)
(* C20: when an exception raised in the block reaches __exit__, resolve    *)
(* still runs on the registry as it was before the failure and evaluates   *)
(* the selected body; when it returns, the registry is cleared, the        *)
(* instance is frozen with the value, and the exception of the block       *)
(* leaves the with statement.                                              *)
(***************************************************************************)
C20_ExitResolvesAfterBlockError ==
    ExitAfterError
    => /\ last.before.cases = CasesOf(last.declared)
       /\ last.before.default = DefaultOf(last.declared)
       /\ Selected # <<>>
          => /\ last.result.evaluated # <<>>
             /\ last.result.evaluated[1] = Selected[1]
       /\ last.result.raises = ""
          => /\ annotations = Defaults
             /\ obj_class[last.inst] = "OutputWrapper"
             /\ obj_dict[last.inst] = [output |-> last.result.val]
             /\ last.propagated = last.block_exc

C20_Witness ==
    /\ ExitAfterError
    /\ last.block_exc = "CaseIdentifierNotConstantError"
    /\ Selected # <<>>
    /\ last.result.raises = ""
    /\ last.result.val = Atom("a")
    /\ obj_class[last.inst] = "OutputWrapper"

====
